---------------------------- MODULE Spec2Model ----------------------------
(***************************************************************************)
(* builderutil.Build (src/builderutil/builderutil.go).                     *)
(*                                                                         *)
(* Build[T](opts ...Lister[T]) allocates a zero T and applies, in order,   *)
(* the functions listed by every option, stopping at the first error.      *)
(* T is the Config struct of the tests, one int field Value; the listed    *)
(* functions are the ones the tests use: a nil entry, "Value = n",         *)
(* "Value += n" and a function that returns an error.                      *)
(*                                                                         *)
(* An option is a Lister interface value.  Its dynamic representation is   *)
(* what line 31 of builderutil.go inspects, so it is part of the model:    *)
(*   "NilIface"  the nil interface value                                   *)
(*   "NilPtr"    a nil *MockLister stored in the interface                 *)
(*   "Ptr"       a non-nil *MockLister                                     *)
(*   "Value"     a Lister whose concrete type is a struct (List has a      *)
(*               value receiver); reflect.Value.IsNil panics on that kind  *)
(***************************************************************************)
EXTENDS Integers, Sequences, FiniteSets, TLC

VARIABLES
    opts,     \* the arguments of the Build call in progress
    heap,     \* address -> T: every instance allocated by new(T) so far
    t,        \* the local t of Build: address of the instance being built
    i,        \* position of the outer range loop (line 30)
    funcs,    \* the slice opt.List() returned for the option at i (line 35)
    j,        \* position of the inner range loop (line 35)
    pc,       \* "idle" | "outer" | "inner" | "done" | "panic"
    ret,      \* what Build returned: [inst, err]
    log,      \* every List() and every listed function invoked by this call
    calls,    \* number of Build calls started
    returned  \* address -> T: the instances callers hold, as they were returned

vars == <<opts, heap, t, i, funcs, j, pc, ret, log, calls, returned>>

-----------------------------------------------------------------------------
(* Bounds of the checked instances.                                        *)

MaxProviders == 2      \* options per call, single-call specification
MaxFuncs == 3          \* listed functions per call, summed over its options
MaxCalls == 2          \* Build calls in a row, repeated-call specification
MaxSeqProviders == 1   \* options per call, repeated-call specification
MaxSeqFuncs == 1       \* listed functions per call, repeated-call specification

-----------------------------------------------------------------------------
(* Values.                                                                 *)

NilT == 0              \* the nil *T
NoErr == 0             \* the nil error
ErrA == 1              \* errors.New(...) of one failing function
ErrB == 2              \* errors.New(...) of another failing function

NilFn == [op |-> "nil", arg |-> 0]
SetValue(n) == [op |-> "set", arg |-> n]
AddValue(n) == [op |-> "add", arg |-> n]
ErrFunc(e) == [op |-> "fail", arg |-> e]

Mutators == {NilFn, SetValue(2), AddValue(1), ErrFunc(ErrA), ErrFunc(ErrB)}

\* A []func(*T) error: the nil slice and the empty slice are different values
\* that range alike.
Slice(isNil, elems) == [isNil |-> isNil, elems |-> elems]
NilSlice == Slice(TRUE, <<>>)

MockLister(kind, fs) == [kind |-> kind, Funcs |-> fs]

Kinds == {"NilIface", "NilPtr", "Ptr", "Value"}

RECURSIVE Sum(_, _)
Sum(lens, k) == IF k = 0 THEN 0 ELSE lens[k] + Sum(lens, k - 1)

\* An argument list is chosen by the kind of each option, the length and
\* nil-ness of the slice each lists, and the listed functions laid end to end.
\* A nil option lists nothing, and only an empty slice can be the nil slice.
WellFormed(kinds, lens, nils, max) ==
    /\ Sum(lens, Len(lens)) <= max
    /\ \A p \in DOMAIN kinds :
          /\ kinds[p] \in {"NilIface", "NilPtr"} => lens[p] = 0 /\ nils[p]
          /\ nils[p] => lens[p] = 0

ArgList(kinds, lens, nils, fs) ==
    [p \in DOMAIN kinds |->
        MockLister(kinds[p],
                   Slice(nils[p], [l \in 1..lens[p] |-> fs[Sum(lens, p - 1) + l]]))]

-----------------------------------------------------------------------------
(* The pieces of Build.                                                    *)

\* new(T): the zero value of T
Zero == [Value |-> 0]

\* Variant of NewT: one instance shared by every call.
NewT_Shared(h) == 1

\* new(T): a fresh address
NewT(h) == Cardinality(DOMAIN h) + 1

\* opt == nil || reflect.ValueOf(opt).IsNil() panics: the right operand is
\* evaluated when opt is not the nil interface, and reflect.Value.IsNil panics
\* unless the kind is chan, func, interface, map, pointer or slice.
IsNilPanics(opt) == opt.kind # "NilIface" /\ opt.kind = "Value"

\* Variant of IsAbsent: only opt == nil, without the reflect check.
IsAbsent_NoReflect(opt) == opt.kind = "NilIface"

\* opt == nil || reflect.ValueOf(opt).IsNil(), where IsNil does not panic
IsAbsent(opt) == opt.kind = "NilIface" \/ opt.kind = "NilPtr"

\* opt.List() on a nil receiver: m.Funcs dereferences m
ListPanics(opt) == opt.kind \in {"NilIface", "NilPtr"}

\* opt.List()
List(opt) == opt.Funcs

\* setArgs(t): the value of *t afterwards and the error returned
Invoke(fn, v) ==
    CASE fn.op = "set" -> [v |-> [v EXCEPT !.Value = fn.arg], err |-> NoErr]
      [] fn.op = "add" -> [v |-> [v EXCEPT !.Value = v.Value + fn.arg], err |-> NoErr]
      [] fn.op = "fail" -> [v |-> v, err |-> fn.arg]

LogList(k) == [op |-> "List", i |-> k, j |-> 0]
LogCall(k, l) == [op |-> "call", i |-> k, j |-> l]

-----------------------------------------------------------------------------
(* Build, one step at a time.                                              *)

Init ==
    /\ opts = <<>>
    /\ heap = <<>>
    /\ t = NilT
    /\ i = 0
    /\ funcs = NilSlice
    /\ j = 0
    /\ pc = "idle"
    /\ ret = [inst |-> NilT, err |-> NoErr]
    /\ log = <<>>
    /\ calls = 0
    /\ returned = <<>>

\* Build(o...): t := new(T), and the outer range starts
Call(o) ==
    /\ pc \in {"idle", "done", "panic"}
    /\ opts' = o
    /\ t' = NewT(heap)
    /\ heap' = [a \in DOMAIN heap \cup {NewT(heap)} |->
                   IF a \in DOMAIN heap THEN heap[a] ELSE Zero]
    /\ i' = 1
    /\ funcs' = NilSlice
    /\ j' = 0
    /\ pc' = "outer"
    /\ ret' = [inst |-> NilT, err |-> NoErr]
    /\ log' = <<>>
    /\ calls' = calls + 1
    /\ UNCHANGED returned

\* line 31: reflect.ValueOf(opt).IsNil() panics on the option at i
IsNilPanic ==
    /\ pc = "outer"
    /\ i <= Len(opts)
    /\ IsNilPanics(opts[i])
    /\ pc' = "panic"
    /\ UNCHANGED <<opts, heap, t, i, funcs, j, ret, log, calls, returned>>

\* lines 31-33: the option at i is nil, continue
SkipAbsent ==
    /\ pc = "outer"
    /\ i <= Len(opts)
    /\ ~IsNilPanics(opts[i])
    /\ IsAbsent(opts[i])
    /\ i' = i + 1
    /\ UNCHANGED <<opts, heap, t, funcs, j, pc, ret, log, calls, returned>>

\* line 35: opt.List() is evaluated once and the inner range starts
ListFuncs ==
    /\ pc = "outer"
    /\ i <= Len(opts)
    /\ ~IsNilPanics(opts[i])
    /\ ~IsAbsent(opts[i])
    /\ log' = Append(log, LogList(i))
    /\ IF ListPanics(opts[i])
       THEN /\ pc' = "panic"
            /\ UNCHANGED <<funcs, j>>
       ELSE /\ pc' = "inner"
            /\ funcs' = List(opts[i])
            /\ j' = 1
    /\ UNCHANGED <<opts, heap, t, i, ret, calls, returned>>

\* Variant of SkipNilFunc: a nil entry ends the inner range (break).
SkipNilFunc_Break ==
    /\ pc = "inner"
    /\ j <= Len(funcs.elems)
    /\ funcs.elems[j] = NilFn
    /\ i' = i + 1
    /\ pc' = "outer"
    /\ UNCHANGED <<opts, heap, t, funcs, j, ret, log, calls, returned>>

\* lines 37-39: the entry at j is nil, continue
SkipNilFunc ==
    /\ pc = "inner"
    /\ j <= Len(funcs.elems)
    /\ funcs.elems[j] = NilFn
    /\ j' = j + 1
    /\ UNCHANGED <<opts, heap, t, i, funcs, pc, ret, log, calls, returned>>

\* line 41: setArgs(t) returns nil
InvokeOk ==
    /\ pc = "inner"
    /\ j <= Len(funcs.elems)
    /\ funcs.elems[j] # NilFn
    /\ Invoke(funcs.elems[j], heap[t]).err = NoErr
    /\ heap' = [heap EXCEPT ![t] = Invoke(funcs.elems[j], heap[t]).v]
    /\ log' = Append(log, LogCall(i, j))
    /\ j' = j + 1
    /\ UNCHANGED <<opts, t, i, funcs, pc, ret, calls, returned>>

\* Variant of InvokeErr: the error is dropped and the range goes on.
InvokeErr_Continue ==
    /\ pc = "inner"
    /\ j <= Len(funcs.elems)
    /\ funcs.elems[j] # NilFn
    /\ Invoke(funcs.elems[j], heap[t]).err # NoErr
    /\ heap' = [heap EXCEPT ![t] = Invoke(funcs.elems[j], heap[t]).v]
    /\ log' = Append(log, LogCall(i, j))
    /\ j' = j + 1
    /\ UNCHANGED <<opts, t, i, funcs, pc, ret, calls, returned>>

\* Variant of InvokeErr: return t, err.
InvokeErr_ReturnsT ==
    /\ pc = "inner"
    /\ j <= Len(funcs.elems)
    /\ funcs.elems[j] # NilFn
    /\ Invoke(funcs.elems[j], heap[t]).err # NoErr
    /\ heap' = [heap EXCEPT ![t] = Invoke(funcs.elems[j], heap[t]).v]
    /\ log' = Append(log, LogCall(i, j))
    /\ ret' = [inst |-> t, err |-> Invoke(funcs.elems[j], heap[t]).err]
    /\ pc' = "done"
    /\ UNCHANGED <<opts, t, i, funcs, j, calls, returned>>

\* lines 41-43: setArgs(t) returns an error, return nil, err
InvokeErr ==
    /\ pc = "inner"
    /\ j <= Len(funcs.elems)
    /\ funcs.elems[j] # NilFn
    /\ Invoke(funcs.elems[j], heap[t]).err # NoErr
    /\ heap' = [heap EXCEPT ![t] = Invoke(funcs.elems[j], heap[t]).v]
    /\ log' = Append(log, LogCall(i, j))
    /\ ret' = [inst |-> NilT, err |-> Invoke(funcs.elems[j], heap[t]).err]
    /\ pc' = "done"
    /\ UNCHANGED <<opts, t, i, funcs, j, calls, returned>>

\* line 45: the inner range is exhausted, next option
EndInner ==
    /\ pc = "inner"
    /\ j > Len(funcs.elems)
    /\ i' = i + 1
    /\ pc' = "outer"
    /\ UNCHANGED <<opts, heap, t, funcs, j, ret, log, calls, returned>>

\* line 49: the outer range is exhausted, return t, nil
ReturnOk ==
    /\ pc = "outer"
    /\ i > Len(opts)
    /\ ret' = [inst |-> t, err |-> NoErr]
    /\ returned' = [a \in DOMAIN returned \cup {t} |->
                       IF a = t THEN heap[t] ELSE returned[a]]
    /\ pc' = "done"
    /\ UNCHANGED <<opts, heap, t, i, funcs, j, log, calls>>

Step ==
    \/ IsNilPanic
    \/ SkipAbsent
    \/ ListFuncs
    \/ SkipNilFunc
    \/ InvokeOk
    \/ InvokeErr
    \/ EndInner
    \/ ReturnOk

\* One Build call.
FirstCall ==
    /\ calls = 0
    /\ \E k \in 0..MaxProviders :
          \E kinds \in [1..k -> Kinds], lens \in [1..k -> 0..MaxFuncs],
             nils \in [1..k -> BOOLEAN] :
             /\ WellFormed(kinds, lens, nils, MaxFuncs)
             /\ \E fs \in [1..Sum(lens, k) -> Mutators] :
                   Call(ArgList(kinds, lens, nils, fs))

Next == FirstCall \/ Step

Spec == Init /\ [][Next]_vars

\* Build calls one after the other.
NextCall ==
    /\ calls < MaxCalls
    /\ pc \in {"idle", "done", "panic"}
    /\ \E k \in 0..MaxSeqProviders :
          \E kinds \in [1..k -> Kinds], lens \in [1..k -> 0..MaxSeqFuncs],
             nils \in [1..k -> BOOLEAN] :
             /\ WellFormed(kinds, lens, nils, MaxSeqFuncs)
             /\ \E fs \in [1..Sum(lens, k) -> Mutators] :
                   Call(ArgList(kinds, lens, nils, fs))

NextCalls == NextCall \/ Step

SpecCalls == Init /\ [][NextCalls]_vars

-----------------------------------------------------------------------------
(* Build as a function of its arguments: what one call returns and what it *)
(* invokes on the way.                                                     *)

\* lines 35-45: the inner range over fs, the list of option k, from entry l
RECURSIVE RangeFuncs(_, _, _, _, _)
RangeFuncs(fs, k, l, v, lg) ==
    IF l > Len(fs.elems)
    THEN [returns |-> FALSE, v |-> v, err |-> NoErr, log |-> lg]
    ELSE IF fs.elems[l] = NilFn
    THEN RangeFuncs(fs, k, l + 1, v, lg)
    ELSE LET r == Invoke(fs.elems[l], v)
         IN  IF r.err # NoErr
             THEN [returns |-> TRUE, v |-> r.v, err |-> r.err,
                   log |-> Append(lg, LogCall(k, l))]
             ELSE RangeFuncs(fs, k, l + 1, r.v, Append(lg, LogCall(k, l)))

Outcome(panicked, nonNil, value, err, lg) ==
    [panicked |-> panicked, nonNil |-> nonNil, value |-> value, err |-> err, log |-> lg]

\* lines 30-49: the outer range over o from option k, with *t = v
RECURSIVE RangeOpts(_, _, _, _)
RangeOpts(o, k, v, lg) ==
    IF k > Len(o)
    THEN Outcome(FALSE, TRUE, v, NoErr, lg)
    ELSE IF IsNilPanics(o[k])
    THEN Outcome(TRUE, FALSE, Zero, NoErr, lg)
    ELSE IF IsAbsent(o[k])
    THEN RangeOpts(o, k + 1, v, lg)
    ELSE IF ListPanics(o[k])
    THEN Outcome(TRUE, FALSE, Zero, NoErr, Append(lg, LogList(k)))
    ELSE LET r == RangeFuncs(List(o[k]), k, 1, v, Append(lg, LogList(k)))
         IN  IF r.returns
             THEN Outcome(FALSE, FALSE, Zero, r.err, r.log)
             ELSE RangeOpts(o, k + 1, r.v, r.log)

\* lines 26-50
Build(o) == RangeOpts(o, 1, Zero, <<>>)

-----------------------------------------------------------------------------
(* Vocabulary of the properties.                                           *)

\* The call in progress has ended: it returned, or it panicked.
Ended == pc \in {"done", "panic"}

\* What the caller of the call that ended has in hand.
Result ==
    Outcome(pc = "panic", ret.inst # NilT,
            IF ret.inst # NilT THEN heap[ret.inst] ELSE Zero, ret.err, log)

\* An outcome without its invocation log: the instance and the error.
Returned(r) == [panicked |-> r.panicked, nonNil |-> r.nonNil, value |-> r.value, err |-> r.err]

\* An absent option: the nil interface, or a nil pointer passed as a Lister.
Absent(opt) == opt.kind \in {"NilIface", "NilPtr"}

FnAt(o, e) == o[e.i].Funcs.elems[e.j]

\* The listed functions an invocation log names, in the order invoked.
RECURSIVE Invoked(_, _)
Invoked(o, lg) ==
    IF lg = <<>> THEN <<>>
    ELSE LET rest == Invoked(o, Tail(lg))
         IN  IF Head(lg).op = "call" THEN <<FnAt(o, Head(lg))>> \o rest ELSE rest

\* The options List() was invoked on, in the order invoked.
Listed(lg) == [n \in 1..Len(SelectSeq(lg, LAMBDA e : e.op = "List")) |->
                  SelectSeq(lg, LAMBDA e : e.op = "List")[n].i]

IsFail(fn) == fn.op = "fail"

\* Some function invoked so far has reported failure.
Failed == \E n \in 1..Len(log) : log[n].op = "call" /\ IsFail(FnAt(opts, log[n]))

\* The non-nil functions of the non-absent options, option by option.
RECURSIVE Flat(_)
Flat(o) ==
    IF o = <<>> THEN <<>>
    ELSE (IF Absent(Head(o)) THEN <<>>
          ELSE SelectSeq(Head(o).Funcs.elems, LAMBDA fn : fn # NilFn))
         \o Flat(Tail(o))

\* The value after applying the functions of fs in order to v.
RECURSIVE ApplyAll(_, _)
ApplyAll(fs, v) == IF fs = <<>> THEN v ELSE ApplyAll(Tail(fs), Invoke(Head(fs), v).v)

\* The shortest prefix of fs that ends with a failing function, or fs.
RECURSIVE UpToFail(_)
UpToFail(fs) ==
    IF fs = <<>> THEN <<>>
    ELSE IF IsFail(Head(fs)) THEN <<Head(fs)>>
    ELSE <<Head(fs)>> \o UpToFail(Tail(fs))

HasFail(fs) == \E n \in 1..Len(fs) : IsFail(fs[n])

\* The arguments without the absent options.
WithoutAbsent(o) == SelectSeq(o, LAMBDA opt : ~Absent(opt))

\* The arguments without the nil entries of the lists.
WithoutNilFns(o) ==
    [p \in DOMAIN o |->
        [o[p] EXCEPT !.Funcs.elems = SelectSeq(@, LAMBDA fn : fn # NilFn)]]

\* The single pointer option that lists what the options of o list, end to end.
RECURSIVE Concat(_)
Concat(o) ==
    IF o = <<>> THEN <<>>
    ELSE (IF Absent(Head(o)) THEN <<>> ELSE Head(o).Funcs.elems) \o Concat(Tail(o))

Joined(o) == <<MockLister("Ptr", Slice(FALSE, Concat(o)))>>

\* Consistency of the two renderings of Build: a call that has ended returned
\* and invoked what the function says.
StepsAgreeWithBuild == Ended => Result = Build(opts)

-----------------------------------------------------------------------------
(* Properties of one Build call (Spec).                                    *)

\* C2: once a function invoked by Build has reported failure, Build invokes
\* nothing more: no further listed function and no List().
C2_NothingInvokedAfterFailure == [][Failed => log' = log]_vars

\* A call has stopped at a failing function with a function still to come.
C2_Witness ==
    /\ pc = "done"
    /\ Failed
    /\ Len(Invoked(opts, log)) < Len(Flat(opts))

FirstFail(fs) == fs[CHOOSE n \in 1..Len(fs) :
                       IsFail(fs[n]) /\ \A m \in 1..(n - 1) : ~IsFail(fs[m])]

\* C3: when a function fails, Build returns at once the error of the first
\* failing function, unchanged, with a nil instance; it never returns an
\* instance together with an error.
C3_FirstErrorAndNilInstance ==
    /\ ~(ret.inst # NilT /\ ret.err # NoErr)
    /\ Failed => /\ pc = "done"
                 /\ ret.inst = NilT
                 /\ ret.err = FirstFail(Flat(opts)).arg

\* A call failed after it had changed the instance, and a later function
\* would have failed with another error.
C3_Witness ==
    /\ pc = "done"
    /\ Failed
    /\ heap[t] # Zero
    /\ \E n \in 1..Len(Flat(opts)) :
          IsFail(Flat(opts)[n]) /\ Flat(opts)[n].arg # ret.err

\* C4: List() is never invoked on an absent option, and a call returns what
\* the same call without its absent options returns.
C4_AbsentOptionsContributeNothing ==
    /\ \A n \in 1..Len(log) : log[n].op = "List" => ~Absent(opts[log[n].i])
    /\ Ended => Returned(Result) = Returned(Build(WithoutAbsent(opts)))

\* A call returned an instance changed by an option that follows a nil
\* pointer option.
C4_Witness ==
    /\ pc = "done"
    /\ ret.inst # NilT
    /\ heap[ret.inst] # Zero
    /\ \E p \in DOMAIN opts : opts[p].kind = "NilPtr" /\ p < Len(opts)

\* C5: a call returns what the same call with the nil entries taken out of
\* the lists returns, and invokes the same functions in the same order.
C5_NilEntriesSkipped ==
    Ended =>
        LET o == WithoutNilFns(opts)
        IN  /\ Returned(Result) = Returned(Build(o))
            /\ Invoked(opts, log) = Invoked(o, Build(o).log)

\* A function that follows a nil entry of its list has been invoked.
C5_Witness ==
    /\ Ended
    /\ \E n \in 1..Len(log) :
          /\ log[n].op = "call"
          /\ \E l \in 1..(log[n].j - 1) : opts[log[n].i].Funcs.elems[l] = NilFn

-----------------------------------------------------------------------------
(* Statements that an option of a struct type breaks (Spec): line 31 calls *)
(* reflect.Value.IsNil on it, which panics, so the call neither returns    *)
(* nor invokes anything of that option or of the options after it.         *)

\* No argument is a Lister of a struct type.
NoValueOption == \A p \in DOMAIN opts : opts[p].kind # "Value"

\* C1: when every invoked function succeeds, Build returns a non-nil
\* instance and a nil error, and the instance is the zero value with every
\* non-nil function of every non-absent option applied once, option by
\* option and in list order.
C1_AllAppliedInOrder ==
    (Ended /\ ~Failed) =>
        /\ pc = "done"
        /\ ret.inst # NilT
        /\ ret.err = NoErr
        /\ Invoked(opts, log) = Flat(opts)
        /\ ret.inst # NilT => heap[ret.inst] = ApplyAll(Flat(opts), Zero)

\* C1 for the calls without an option of a struct type.
C1_ForPointerOptions == NoValueOption => C1_AllAppliedInOrder

\* Every option is absent or lists nothing.
NothingListed == \A p \in DOMAIN opts : Absent(opts[p]) \/ opts[p].Funcs.elems = <<>>

\* C6: Build with no option, or with options that all list nothing (a nil or
\* an empty list), returns a nil error and a non-nil zero instance.
C6_NothingListedGivesZero ==
    (Ended /\ NothingListed) =>
        /\ pc = "done"
        /\ ret.err = NoErr
        /\ ret.inst # NilT
        /\ ret.inst # NilT => heap[ret.inst] = Zero

\* C6 for the calls without an option of a struct type.
C6_ForPointerOptions == NoValueOption => C6_NothingListedGivesZero

\* C7: whatever the representation of each option, Build completes normally,
\* and it returns an error exactly when an invoked function returned one.
C7_OnlyMutatorsFail ==
    /\ pc # "panic"
    /\ pc = "done" => (ret.err # NoErr <=> Failed)

\* C7 for the calls without an option of a struct type.
C7_ForPointerOptions == NoValueOption => C7_OnlyMutatorsFail

\* C8: a call returns, and invokes, what Build of the single option listing
\* the concatenation of the options' lists returns and invokes.
C8_SameAsOneJoinedOption ==
    Ended =>
        LET o == Joined(opts)
        IN  /\ Returned(Result) = Returned(Build(o))
            /\ Invoked(opts, log) = Invoked(o, Build(o).log)

\* C8 for the calls without an option of a struct type.
C8_ForPointerOptions == NoValueOption => C8_SameAsOneJoinedOption

\* The non-absent options among the first k.
RECURSIVE PresentUpTo(_, _)
PresentUpTo(o, k) ==
    IF k = 0 THEN <<>>
    ELSE PresentUpTo(o, k - 1) \o (IF Absent(o[k]) THEN <<>> ELSE <<k>>)

\* The options the call got to: all of them, or those up to the one it ended at.
Reached == IF i > Len(opts) THEN Len(opts) ELSE i

\* C10: the functions a call invokes are the non-nil functions of the
\* non-absent options up to and including the first that fails (all of them
\* if none fails), once each and in order; List() is invoked once on every
\* non-absent option reached and on none after the failure; the functions
\* before the failing one have been applied to the instance that is dropped.
C10_InvocationsArePrefix ==
    Ended =>
        /\ Invoked(opts, log) = UpToFail(Flat(opts))
        /\ Listed(log) = PresentUpTo(opts, Reached)
        /\ heap[t] = ApplyAll(Invoked(opts, log), Zero)

\* C10 for the calls without an option of a struct type.
C10_ForPointerOptions == NoValueOption => C10_InvocationsArePrefix

-----------------------------------------------------------------------------
(* Properties of Build calls in a row (SpecCalls).                         *)

\* C9: every call builds on its own zero instance: what a call returns and
\* invokes is what Build of its arguments alone gives, whatever calls came
\* before, and an instance a caller holds stays as it was returned.
C9_CallsAreIndependent ==
    /\ \A a \in DOMAIN returned : heap[a] = returned[a]
    /\ Ended => Result = Build(opts)

\* A later call has changed its own instance while a caller holds an instance
\* of an earlier call with another, non-zero value.
C9_Witness ==
    /\ Ended
    /\ heap[t] # Zero
    /\ \E a \in DOMAIN returned : a # t /\ returned[a] # Zero /\ returned[a] # heap[t]

=============================================================================
